---- MODULE Spec2Model ----
(***************************************************************************)
(* Model of idempLib: the idempotency middleware (the gate) and its Redis  *)
(* repository (the key store).                                             *)
(*                                                                         *)
(* The repository holds two definitions of the handler:                    *)
(*   src/IdempotencyHandler.go   (handler + repo, nil-tracer aware)        *)
(*   src/idempontecyService.go   (older handler, tracer used unguarded)    *)
(* A build links one of them; `build` says which.  The repo code (second   *)
(* half of src/IdempotencyHandler.go) is the same in both builds.          *)
(*                                                                         *)
(* Requests are goroutines of net/http; they interleave at the Redis       *)
(* commands (EXISTS, SET), each of which Redis executes atomically.        *)
(* Time is counted in minutes; the store keeps, per key, the minutes its    *)
(* record still has to live (what Redis reports as the key's TTL).         *)
(***************************************************************************)
EXTENDS Integers, Sequences, FiniteSets, TLC

VARIABLES build, host, port, hres, rres, clients, store, req

vars == <<build, host, port, hres, rres, clients, store, req>>

----------------------------------------------------------------------------
(* Bounds of the model *)

MaxReq == 2
MaxTracers == 2

----------------------------------------------------------------------------
(* Program constants *)

\* time.Duration(3)*time.Minute
TTL == 3

\* http.StatusOK
StatusOK == 200

IDEMP_HEDER == "Idempotency-Key"

\* reqKey = "req:%s", as a sequence of characters
reqKey == <<"r", "e", "q", ":">>

----------------------------------------------------------------------------
(* Value domains *)

\* a nil trace.Tracer
Nil == "nil"
\* a nil *IdempotencyHandlerImpl / IdempontencyRepo
NilObj == [nil |-> TRUE]
\* a nil error
NoErr == <<>>
NoRecord == 0

Builds == {"IdempotencyHandler.go", "idempontecyService.go"}

Hosts == {"", "localhost"}
Ports == {"", "6379"}

\* the tracers a caller can pass
Tracers == {"tracer"}

TracerArgs == UNION {[1..n -> Tracers] : n \in 0..MaxTracers}

Methods == {"GET", "HEAD", "OPTIONS", "POST", "PUT", "PATCH", "DELETE"}

\* header values: "" (header absent or empty) and two opaque tokens
Tokens == {<<>>, <<"a">>, <<"b">>}

Reqs == 1..MaxReq

\* the gate is applied to every method
IsMutating_Any(m) == TRUE

\* h.Method == POST || PUT || PATCH || DELETE
IsMutating(m) == m = "POST" \/ m = "PUT" \/ m = "PATCH" \/ m = "DELETE"

\* the verb is missing from the format: every token gets the key "req:"
constructKey_NoVerb(id) == reqKey

\* fmt.Sprintf(reqKey, id)
constructKey(id) == reqKey \o id

Keys == {constructKey(t) : t \in Tokens}

----------------------------------------------------------------------------
(* Construction *)

tooManyArgumentsError(fnc) == <<fnc, "you passed in to many argumants into this function">>

EnvError == <<"couldn't read .env variables">>

\* a call's outcome: the object returned (or Nil), the error returned (or NoErr),
\* whether the call panicked, and how many redis clients it created
Outcome(obj, err, panic, made) == [obj |-> obj, err |-> err, panic |-> panic, made |-> made]

NotCalled == [obj |-> NilObj, err |-> NoErr, panic |-> FALSE, made |-> 0, args |-> -1]

\* the address is rejected only when both variables are missing
NewIdempotenceRepo_BothMissing(tracer) ==
    IF Len(tracer) > 1
    THEN Outcome(NilObj, tooManyArgumentsError("NewIdempotenceRepo"), FALSE, 0)
    ELSE LET t == IF Len(tracer) = 0 THEN <<Nil>> ELSE tracer
         IN  IF host = "" /\ port = ""
             THEN Outcome(NilObj, EnvError, FALSE, 0)
             ELSE Outcome([cli |-> <<host, port>>, Tracer |-> t[1]], NoErr, FALSE, 1)

\* src/IdempotencyHandler.go, second half
NewIdempotenceRepo(tracer) ==
    IF Len(tracer) > 1
    THEN Outcome(NilObj, tooManyArgumentsError("NewIdempotenceRepo"), FALSE, 0)
    ELSE LET t == IF Len(tracer) = 0 THEN <<Nil>> ELSE tracer
         IN  IF host = "" \/ port = ""
             THEN Outcome(NilObj, EnvError, FALSE, 0)
             ELSE Outcome([cli |-> <<host, port>>, Tracer |-> t[1]], NoErr, FALSE, 1)

\* the arity test is off by one: two tracers are let through
NewIdempotencyHandler_TwoAllowed(tracer) ==
    IF Len(tracer) > 2
    THEN Outcome(NilObj, tooManyArgumentsError("NewIdempotencyService"), FALSE, 0)
    ELSE LET t == IF Len(tracer) = 0 THEN <<Nil>> ELSE tracer
             r == NewIdempotenceRepo(<<t[1]>>)
         IN  IF r.err # NoErr
             THEN Outcome(NilObj, r.err, FALSE, r.made)
             ELSE Outcome([repo |-> r.obj, Tracer |-> t[1]], NoErr, FALSE, r.made)

\* src/IdempotencyHandler.go
NewIdempotencyHandler(tracer) ==
    IF Len(tracer) > 1
    THEN Outcome(NilObj, tooManyArgumentsError("NewIdempotencyService"), FALSE, 0)
    ELSE LET t == IF Len(tracer) = 0 THEN <<Nil>> ELSE tracer
             r == NewIdempotenceRepo(<<t[1]>>)
         IN  IF r.err # NoErr
             THEN Outcome(NilObj, r.err, FALSE, r.made)
             ELSE Outcome([repo |-> r.obj, Tracer |-> t[1]], NoErr, FALSE, r.made)

\* src/idempontecyService.go: tracer[0] is read without a length check
NewIdempotencyHandler_Service(tracer) ==
    IF Len(tracer) > 1
    THEN Outcome(NilObj, tooManyArgumentsError("NewIdempotencyService"), FALSE, 0)
    ELSE IF Len(tracer) = 0
    THEN Outcome(NilObj, NoErr, TRUE, 0)
    ELSE LET r == NewIdempotenceRepo(<<tracer[1]>>)
         IN  IF r.err # NoErr
             THEN Outcome(NilObj, r.err, FALSE, r.made)
             ELSE Outcome([repo |-> r.obj, Tracer |-> tracer[1]], NoErr, FALSE, r.made)

WithArgs(o, n) == [obj |-> o.obj, err |-> o.err, panic |-> o.panic, made |-> o.made, args |-> n]

\* the application constructs its handler
CallNewIdempotencyHandler(tracer) ==
    /\ hres.args = -1
    /\ LET o == IF build = "IdempotencyHandler.go"
                THEN NewIdempotencyHandler(tracer)
                ELSE NewIdempotencyHandler_Service(tracer)
       IN  /\ hres' = WithArgs(o, Len(tracer))
           /\ clients' = clients + o.made
    /\ UNCHANGED <<build, host, port, rres, store, req>>

\* the application constructs a repo of its own
CallNewIdempotenceRepo(tracer) ==
    /\ rres.args = -1
    /\ hres.args = -1
    /\ LET o == NewIdempotenceRepo(tracer)
       IN  /\ rres' = WithArgs(o, Len(tracer))
           /\ clients' = clients + o.made
    /\ UNCHANGED <<build, host, port, hres, store, req>>

----------------------------------------------------------------------------
(* The key store: Redis behind idempontencyRepoRedis *)

\* one command sent to Redis; ok = FALSE when the backend is unreachable or timed out;
\* held records whether Redis held an unexpired record under the key at that moment
Cmd(op, key, ttl, ok) ==
    [op |-> op, key |-> key, ttl |-> ttl, ok |-> ok, held |-> store[key] # NoRecord]

\* the comparison is inverted: Val() == 0
Exists_Inverted(id, ok) == ok /\ store[constructKey(id)] = NoRecord

\* i.cli.Exists(constructKey(id)).Val() == 1 ; Val() is 0 when the command failed
Exists(id, ok) == ok /\ store[constructKey(id)] # NoRecord

\* the record is written with a TTL of 2 minutes
Save_ShortTTL(id, ok) ==
    IF ok THEN [store EXCEPT ![constructKey(id)] = TTL - 1] ELSE store

\* the traced branch writes the record with another TTL than the untraced one
SaveTraced_OtherTTL(id, ok) ==
    IF ok THEN [store EXCEPT ![constructKey(id)] = TTL - 2] ELSE store

\* Save with a tracer: span, then i.cli.Set(key, true, 3min)
SaveTraced(id, ok) ==
    IF ok THEN [store EXCEPT ![constructKey(id)] = TTL] ELSE store

\* Save without a tracer: i.cli.Set(key, true, 3min)
SaveUntraced(id, ok) ==
    IF ok THEN [store EXCEPT ![constructKey(id)] = TTL] ELSE store

\* Save: the store after the command
Save(id, ok) ==
    IF hres.obj.repo.Tracer # Nil THEN SaveTraced(id, ok) ELSE SaveUntraced(id, ok)

\* the spans a repo operation opens
RepoSpan(repo, name) == IF repo.Tracer # Nil THEN <<name>> ELSE <<>>

\* a minute passes: every record has a minute less to live, and Redis drops a
\* record when its TTL has elapsed
Expire(s) == [k \in Keys |-> IF s[k] = NoRecord THEN NoRecord ELSE s[k] - 1]

Tick ==
    /\ store' = Expire(store)
    /\ UNCHANGED <<build, host, port, hres, rres, clients, req>>

----------------------------------------------------------------------------
(* The gate: MiddlewareIdempotency, one goroutine per request *)

Idle == [pc |-> "idle", method |-> "GET", token |-> <<>>, fresh |-> TRUE, ops |-> <<>>,
         exists |-> "none", served |-> 0, status |-> 0, spans |-> <<>>,
         down |-> "none"]

handler == hres.obj

\* the span the gate opens for a mutating request
GateSpan ==
    IF handler.Tracer # Nil THEN <<"IdempotencyHandler.MiddlewareIdempotency">> ELSE <<>>

\* the header is not tested for emptiness before Exists is called
AfterMethod_NoHeaderTest(m, tok) ==
    IF ~IsMutating(m) THEN "next"
    ELSE IF build = "idempontecyService.go" /\ handler.Tracer = Nil THEN "panic"
    ELSE "exists"

\* the header test of the branch with a tracer
TracedBranch(tok) == IF tok # <<>> THEN "exists" ELSE "save"

\* the header test of the branch without a tracer
UntracedBranch(tok) == IF tok # <<>> THEN "exists" ELSE "save"

\* the header test of src/idempontecyService.go
ServiceBranch(tok) == IF tok # <<>> THEN "exists" ELSE "save"

\* where the gate goes after reading the method and the header
AfterMethod(m, tok) ==
    IF ~IsMutating(m) THEN "next"
    ELSE IF build = "idempontecyService.go"
    THEN (IF handler.Tracer = Nil THEN "panic" ELSE ServiceBranch(tok))
    ELSE IF handler.Tracer # Nil THEN TracedBranch(tok)
    ELSE UntracedBranch(tok)

\* request slots are used in order (slots are interchangeable)
Ordered(r) == IF r = 1 THEN TRUE ELSE req[r - 1].pc # "idle"

\* a request arrives: method test, span, header test
Arrive(r, m, tok) ==
    /\ handler # NilObj
    /\ req[r].pc = "idle"
    /\ Ordered(r)
    /\ req' = [req EXCEPT ![r] =
                 [@ EXCEPT !.pc = AfterMethod(m, tok),
                           !.method = m,
                           !.token = tok,
                           !.fresh = IF IsMutating(m) /\ tok # <<>>
                                     THEN store[constructKey(tok)] = NoRecord ELSE TRUE,
                           !.spans = IF IsMutating(m) /\ AfterMethod(m, tok) # "panic"
                                     THEN GateSpan ELSE <<>>]]
    /\ UNCHANGED <<build, host, port, hres, rres, clients, store>>

\* a request that finds no record waits instead of going on
AfterExists_Wait(found) == IF found THEN "done" ELSE "wait"

\* the request is handed on before its record is written
AfterExists_SkipSave(found) == IF found THEN "done" ELSE "next"

\* a duplicate is answered and still handed on: the return is missing
AfterExists_NoReturn(found) == "save"

\* rw.WriteHeader(http.StatusOK); return  /  else: Save, then next
AfterExists(found) == IF found THEN "done" ELSE "save"

\* handler.repo.Exists(h.Header.Get(IDEMP_HEDER), ctx) and the branch on it
GateExists(r, ok) ==
    /\ req[r].pc = "exists"
    /\ LET found == Exists(req[r].token, ok)
       IN  req' = [req EXCEPT ![r] =
                 [@ EXCEPT !.pc = AfterExists(found),
                           !.exists = IF found THEN "true" ELSE "false",
                           !.status = IF found THEN StatusOK ELSE @,
                           !.ops = Append(@, Cmd("EXISTS", constructKey(req[r].token), 0, ok)),
                           !.spans = @ \o RepoSpan(handler.repo, "IdempontencyRepoRedis.Exists")]]
    /\ UNCHANGED <<build, host, port, hres, rres, clients, store>>

\* handler.repo.Save(h.Header.Get(IDEMP_HEDER), ctx); its result is dropped
GateSave(r, ok) ==
    /\ req[r].pc = "save"
    /\ store' = Save(req[r].token, ok)
    /\ req' = [req EXCEPT ![r] =
                 [@ EXCEPT !.pc = "next",
                           !.ops = Append(@, Cmd("SET", constructKey(req[r].token), TTL, ok)),
                           !.spans = @ \o RepoSpan(handler.repo, "IdempontencyRepoRedis.Save")]]
    /\ UNCHANGED <<build, host, port, hres, rres, clients>>

\* how a call of the downstream handler ends: it completes, or it fails or the
\* request is cancelled before it completes
DownResults == {"completed", "aborted"}

\* a compensating rollback: the record is deleted when the downstream call is aborted
ServeNext_Rollback(r, res) ==
    /\ req[r].pc = "next"
    /\ req' = [req EXCEPT ![r] = [@ EXCEPT !.pc = "done", !.served = @ + 1, !.down = res]]
    /\ store' = IF res = "aborted"
                THEN [store EXCEPT ![constructKey(req[r].token)] = NoRecord]
                ELSE store
    /\ UNCHANGED <<build, host, port, hres, rres, clients>>

\* next.ServeHTTP(rw, h); nothing follows it in the gate
ServeNext(r, res) ==
    /\ req[r].pc = "next"
    /\ req' = [req EXCEPT ![r] = [@ EXCEPT !.pc = "done", !.served = @ + 1, !.down = res]]
    /\ UNCHANGED <<build, host, port, hres, rres, clients, store>>

----------------------------------------------------------------------------
(* Specifications *)

Init ==
    /\ build \in Builds
    /\ host \in Hosts
    /\ port \in Ports
    /\ hres = NotCalled
    /\ rres = NotCalled
    /\ clients = 0
    /\ store = [k \in Keys |-> NoRecord]
    /\ req = [r \in Reqs |-> Idle]

Next ==
    \/ \E tracer \in TracerArgs : CallNewIdempotencyHandler(tracer)
    \/ \E tracer \in TracerArgs : CallNewIdempotenceRepo(tracer)
    \/ \E r \in Reqs, m \in Methods, tok \in Tokens : Arrive(r, m, tok)
    \/ \E r \in Reqs, ok \in BOOLEAN : GateExists(r, ok)
    \/ \E r \in Reqs, ok \in BOOLEAN : GateSave(r, ok)
    \/ \E r \in Reqs, res \in DownResults : ServeNext(r, res)
    \/ Tick

Spec == Init /\ [][Next]_vars

\* requests handled one after another: a request arrives only when none is in flight
InFlight(r) == req[r].pc \in {"exists", "save", "next"}

ArriveSeq(r, m, tok) ==
    /\ \A q \in Reqs : ~InFlight(q)
    /\ Arrive(r, m, tok)

NextSeq ==
    \/ \E tracer \in TracerArgs : CallNewIdempotencyHandler(tracer)
    \/ \E tracer \in TracerArgs : CallNewIdempotenceRepo(tracer)
    \/ \E r \in Reqs, m \in Methods, tok \in Tokens : ArriveSeq(r, m, tok)
    \/ \E r \in Reqs, ok \in BOOLEAN : GateExists(r, ok)
    \/ \E r \in Reqs, ok \in BOOLEAN : GateSave(r, ok)
    \/ \E r \in Reqs, res \in DownResults : ServeNext(r, res)
    \/ Tick

SpecSeq == Init /\ [][NextSeq]_vars

\* Termination is checked on a smaller input alphabet: one read-only and one
\* mutating method.  Every Redis command returns, with an answer or with an
\* error (go-redis gives up after its dial/read/write timeouts), and a request
\* goroutine that can take a step takes it.
LiveMethods == {"GET", "POST"}

NextLive ==
    \/ \E tracer \in TracerArgs : CallNewIdempotencyHandler(tracer)
    \/ \E tracer \in TracerArgs : CallNewIdempotenceRepo(tracer)
    \/ \E r \in Reqs, m \in LiveMethods, tok \in Tokens : Arrive(r, m, tok)
    \/ \E r \in Reqs, ok \in BOOLEAN : GateExists(r, ok)
    \/ \E r \in Reqs, ok \in BOOLEAN : GateSave(r, ok)
    \/ \E r \in Reqs, res \in DownResults : ServeNext(r, res)
    \/ Tick

Fairness ==
    \A r \in Reqs :
        /\ WF_vars(\E ok \in BOOLEAN : GateExists(r, ok))
        /\ WF_vars(\E ok \in BOOLEAN : GateSave(r, ok))
        /\ WF_vars(\E res \in DownResults : ServeNext(r, res))

SpecLive == Init /\ [][NextLive]_vars /\ Fairness

TypeOK ==
    /\ \A k \in Keys : store[k] \in 0..TTL
    /\ \A r \in Reqs : req[r].served \in 0..1

----------------------------------------------------------------------------
(* Vocabulary of the properties *)

Started(r) == req[r].pc # "idle"
Done(r) == req[r].pc = "done"

\* a mutating request that carries a token
Protected(r) == Started(r) /\ IsMutating(req[r].method) /\ req[r].token # <<>>

\* a mutating request without a token
Tokenless(r) == Started(r) /\ IsMutating(req[r].method) /\ req[r].token = <<>>

OpsOf(r, op) == {i \in 1..Len(req[r].ops) : req[r].ops[i].op = op}

\* every store command of the request was answered
Healthy(r) == \A i \in 1..Len(req[r].ops) : req[r].ops[i].ok

Forwarded(r) == Done(r) /\ req[r].served = 1
ShortCircuited(r) == Done(r) /\ req[r].served = 0 /\ req[r].status = StatusOK

\* the request wrote the record of its token, with the given TTL
Wrote(r, ttl) ==
    \E i \in OpsOf(r, "SET") :
        /\ req[r].ops[i].ok
        /\ req[r].ops[i].key = constructKey(req[r].token)
        /\ req[r].ops[i].ttl = ttl

\* the request's existence check found / did not find a live record in Redis
CheckedHeld(r) == \E i \in OpsOf(r, "EXISTS") : req[r].ops[i].held
CheckedAbsent(r) == \E i \in OpsOf(r, "EXISTS") : ~req[r].ops[i].held

\* the request wrote while a live record of its token was in Redis
WroteOverLive(r) == \E i \in OpsOf(r, "SET") : req[r].ops[i].ok /\ req[r].ops[i].held

----------------------------------------------------------------------------
(* C1..C10 *)

\* C1: of the token-bearing mutating requests that carry the same token and
\* are handled within one TTL window (the later write finds the record of the
\* earlier one still live) with a healthy store, at most one is forwarded, and
\* no two of them both observe "not yet claimed".
C1_ExactlyOneForwarded ==
    \A r1 \in Reqs : \A r2 \in Reqs \ {r1} :
        ( /\ Protected(r1) /\ Protected(r2)
          /\ req[r1].token = req[r2].token
          /\ Healthy(r1) /\ Healthy(r2)
          /\ WroteOverLive(r1) \/ WroteOverLive(r2) )
        => /\ ~(Forwarded(r1) /\ Forwarded(r2))
           /\ ~(req[r1].exists = "false" /\ req[r2].exists = "false")

\* C2: with requests handled one after another and a healthy store, a
\* token-bearing mutating request that arrives when no record of its token is
\* live is forwarded (and writes the record), and one whose check falls while
\* the record is live is short-circuited.
C2_SequentialFirstThenDuplicates ==
    \A r \in Reqs :
        (Protected(r) /\ Healthy(r) /\ Done(r))
        => /\ req[r].fresh => (Forwarded(r) /\ Wrote(r, TTL))
           /\ CheckedHeld(r) => ShortCircuited(r)

C2_Witness ==
    \E r1 \in Reqs : \E r2 \in Reqs :
        /\ r1 < r2
        /\ Protected(r1) /\ Protected(r2)
        /\ req[r1].token = req[r2].token
        /\ Healthy(r1) /\ Healthy(r2)
        /\ req[r1].fresh /\ Forwarded(r1)
        /\ ~req[r2].fresh /\ ShortCircuited(r2)
        /\ store[constructKey(req[r2].token)] = TTL - 2

\* C3: with requests handled one after another and a healthy store, a
\* token-bearing mutating request that follows an earlier claim of the same
\* token and finds the record expired is forwarded and has written a record
\* with the 3-minute TTL; and every step that changes a record either writes
\* the full TTL or ages the record by one minute.
ReclaimedAfterExpiry ==
    \A r1 \in Reqs : \A r2 \in Reqs :
        ( /\ r1 < r2
          /\ Protected(r1) /\ Protected(r2)
          /\ req[r1].token = req[r2].token
          /\ Healthy(r1) /\ Healthy(r2)
          /\ Wrote(r1, TTL)
          /\ CheckedAbsent(r2) )
        => /\ req[r2].pc \in {"save", "next", "done"}
           /\ req[r2].pc \in {"next", "done"} => Wrote(r2, 3)
           /\ Done(r2) => Forwarded(r2)

RecordsLiveThreeMinutes ==
    \A k \in Keys :
        store'[k] # store[k] => (store'[k] = 3 \/ store'[k] = store[k] - 1)

C3_ReclaimAfterExpiry == []ReclaimedAfterExpiry /\ [][RecordsLiveThreeMinutes]_vars

C3_Witness ==
    \E r1 \in Reqs : \E r2 \in Reqs :
        /\ r1 < r2
        /\ Protected(r1) /\ Protected(r2)
        /\ req[r1].token = req[r2].token
        /\ Healthy(r1) /\ Healthy(r2)
        /\ Forwarded(r1) /\ Wrote(r1, TTL)
        /\ CheckedAbsent(r2) /\ Forwarded(r2) /\ Wrote(r2, 3)
        /\ store[constructKey(req[r2].token)] = 3

\* C4: a token-bearing mutating request invokes the downstream handler exactly
\* once when the store reported its key absent and never when the store
\* reported it present; in the latter case the gate answers 200 and has sent
\* no write to the store.
C4_ForwardOnceOrNever ==
    \A r \in Reqs :
        Protected(r)
        => /\ req[r].served \in {0, 1}
           /\ (Done(r) /\ req[r].exists = "false") => req[r].served = 1
           /\ req[r].exists = "true"
                => /\ Done(r)
                   /\ req[r].served = 0
                   /\ req[r].status = StatusOK
                   /\ OpsOf(r, "SET") = {}

C4_Witness ==
    \E r1 \in Reqs : \E r2 \in Reqs :
        /\ Protected(r1) /\ Protected(r2)
        /\ Done(r1) /\ req[r1].exists = "false" /\ req[r1].served = 1
        /\ Done(r2) /\ req[r2].exists = "true" /\ req[r2].served = 0

\* C5: a mutating request without a token sends no command to the store, and
\* no command is ever sent under the key of the empty token.
C5_NoStoreOpWithoutToken ==
    /\ \A r \in Reqs : Tokenless(r) => req[r].ops = <<>>
    /\ \A r \in Reqs : \A i \in 1..Len(req[r].ops) :
           req[r].ops[i].key # constructKey(<<>>)

\* C6: a mutating request without a token is never short-circuited and, once
\* handled, has been forwarded exactly once, whatever the store holds.
C6_TokenlessAlwaysForwarded ==
    \A r \in Reqs :
        Tokenless(r)
        => /\ req[r].pc \in {"save", "next", "done"}
           /\ req[r].exists = "none"
           /\ req[r].status = 0
           /\ Done(r) => req[r].served = 1

C6_Witness ==
    \E r1 \in Reqs : \E r2 \in Reqs :
        /\ r1 < r2
        /\ Tokenless(r1) /\ Tokenless(r2)
        /\ Forwarded(r1) /\ Forwarded(r2)
        /\ store[constructKey(<<>>)] # NoRecord

\* C7: a request whose method is not POST, PUT, PATCH or DELETE sends no
\* command to the store, is never short-circuited and, once handled, has been
\* forwarded exactly once, whatever its header and whatever the store holds.
C7_ReadOnlyBypasses ==
    \A r \in Reqs :
        (Started(r) /\ req[r].method \notin {"POST", "PUT", "PATCH", "DELETE"})
        => /\ req[r].pc \in {"next", "done"}
           /\ req[r].ops = <<>>
           /\ req[r].exists = "none"
           /\ req[r].status = 0
           /\ Done(r) => req[r].served = 1

C7_Witness ==
    \E r \in Reqs :
        /\ req[r].method = "GET"
        /\ req[r].token # <<>>
        /\ Forwarded(r)
        /\ req[r].ops = <<>>
        /\ store[constructKey(req[r].token)] # NoRecord

\* what the gate's control flow holds of a request: the result of Exists, the
\* status it wrote, the downstream calls it made
GateView(r) == <<req[r].exists, req[r].status, req[r].served>>

\* C8: a token-bearing mutating request one of whose store commands failed is
\* not forwarded the way a request with a successful fresh claim is: the gate
\* tells the two apart.
C8_StoreErrorIsDecisionInput ==
    \A r1 \in Reqs : \A r2 \in Reqs :
        ( /\ Protected(r1) /\ Protected(r2)
          /\ ~Healthy(r1) /\ Forwarded(r1)
          /\ Healthy(r2) /\ Forwarded(r2) )
        => GateView(r1) # GateView(r2)

\* C9: with the backend address configured, constructing the handler without
\* a tracer returns a handler and no error without faulting, and no request
\* faults on the absent tracer.
C9_TracerOptional ==
    /\ (hres.args = 0 /\ host # "" /\ port # "")
         => (~hres.panic /\ hres.err = NoErr /\ hres.obj # NilObj)
    /\ \A r \in Reqs : req[r].pc # "panic"

\* C10: when the host or the port is not configured, every constructor call
\* that returns returns an error and no object, no redis client is created and
\* no request is ever handled.
C10_NoAddressNoGate ==
    (host = "" \/ port = "")
    => /\ (hres.args # -1 /\ ~hres.panic) => hres.err # NoErr
       /\ hres.obj = NilObj
       /\ rres.args # -1 => rres.err # NoErr
       /\ rres.obj = NilObj
       /\ clients = 0
       /\ \A r \in Reqs : ~Started(r)

C10_Witness ==
    /\ host # "" /\ port = ""
    /\ rres.args = 0 /\ rres.err = EnvError
    /\ hres.args = 1 /\ hres.err = EnvError /\ hres.obj = NilObj

----------------------------------------------------------------------------
(* C11..C18 *)

\* C11: a constructor called with more than one tracer returns the
\* too-many-arguments error and no object, whatever the backend configuration,
\* and creates no redis client.
C11_TooManyTracers ==
    /\ hres.args > 1
         => /\ hres.err = tooManyArgumentsError("NewIdempotencyService")
            /\ hres.obj = NilObj
            /\ ~hres.panic
            /\ hres.made = 0
    /\ rres.args > 1
         => /\ rres.err = tooManyArgumentsError("NewIdempotenceRepo")
            /\ rres.obj = NilObj
            /\ ~rres.panic
            /\ rres.made = 0
    /\ (hres.args > 1 /\ rres.args > 1) => clients = 0

C11_Witness ==
    /\ host # "" /\ port # ""
    /\ build = "IdempotencyHandler.go"
    /\ rres.args = 2 /\ rres.err = tooManyArgumentsError("NewIdempotenceRepo")
    /\ hres.args = 2 /\ hres.err = tooManyArgumentsError("NewIdempotencyService")
    /\ clients = 0

\* C12: a live record of a token is never written again: no step gives a live
\* record more minutes to live than it has.
RecordNotRewritten ==
    \A t \in Tokens \ {<<>>} :
        store[constructKey(t)] # NoRecord
        => store'[constructKey(t)] <= store[constructKey(t)]

C12_NeverRewritten == [][RecordNotRewritten]_vars

\* C14: a token-bearing mutating request sends exactly one command to the
\* store: deciding new-or-seen and creating the record are one command, and no
\* command is repeated.
C14_OneClaimAttempt ==
    \A r \in Reqs :
        Protected(r)
        => /\ Len(req[r].ops) <= 1
           /\ (req[r].pc \in {"next", "done"}) => Len(req[r].ops) = 1

\* C13: a live record disappears only by its TTL elapsing, in a step of the
\* store alone; and a record written by a request whose downstream call was
\* aborted short-circuits every retry whose check falls while it is live.
RecordOnlyExpires ==
    \A k \in Keys :
        (store[k] # NoRecord /\ store'[k] = NoRecord)
        => /\ store[k] = 1
           /\ store' = Expire(store)
           /\ req' = req

RetriesOfAbortedBlocked ==
    \A r \in Reqs : \A q \in Reqs \ {r} :
        ( /\ Protected(r) /\ Healthy(r) /\ Done(r) /\ req[r].down = "aborted"
          /\ Protected(q) /\ Healthy(q) /\ Done(q)
          /\ req[q].token = req[r].token
          /\ CheckedHeld(q) )
        => ShortCircuited(q)

C13_OnlyExpiryRemoves == []RetriesOfAbortedBlocked /\ [][RecordOnlyExpires]_vars

C13_Witness ==
    \E r \in Reqs : \E q \in Reqs \ {r} :
        /\ Protected(r) /\ Healthy(r) /\ Done(r) /\ req[r].down = "aborted"
        /\ Wrote(r, TTL)
        /\ Protected(q) /\ Healthy(q) /\ req[q].token = req[r].token
        /\ ~req[q].fresh /\ ShortCircuited(q)
        /\ store[constructKey(req[r].token)] = 1

\* C15: a token-bearing mutating request with a healthy store has written its
\* record before the downstream handler is invoked: the record is live with
\* its full TTL when the request is handed on, and while the request waits in
\* the downstream call the record loses minutes only by ageing.
ClaimedBeforeForward ==
    \A r \in Reqs :
        (Protected(r) /\ Healthy(r) /\ (req[r].pc = "next" \/ req[r].served = 1))
        => Wrote(r, TTL)

HandedOnWithLiveRecord ==
    \A r \in Reqs :
        LET k == constructKey(req'[r].token)
        IN  /\ ( /\ req[r].pc # "next" /\ req'[r].pc = "next"
                 /\ IsMutating(req'[r].method) /\ req'[r].token # <<>>
                 /\ \A i \in 1..Len(req'[r].ops) : req'[r].ops[i].ok )
               => store'[k] = TTL
            /\ (req[r].pc = "next" /\ Protected(r) /\ Healthy(r) /\ store'[k] < store[k])
               => store' = Expire(store)

C15_ClaimPrecedesForward == []ClaimedBeforeForward /\ [][HandedOnWithLiveRecord]_vars

C15_Witness ==
    \E r \in Reqs :
        /\ Protected(r) /\ Healthy(r)
        /\ req[r].pc = "next"
        /\ Wrote(r, TTL)
        /\ store[constructKey(req[r].token)] = TTL - 1

\* C18: distinct tokens have distinct keys; a step of a request changes no
\* record but that of its own token; and a request is short-circuited only
\* when another request carrying the same token has written the record.
KeysDistinct ==
    \A t1 \in Tokens : \A t2 \in Tokens :
        constructKey(t1) = constructKey(t2) => t1 = t2

ShortCircuitedByOwnToken ==
    \A r \in Reqs :
        ShortCircuited(r)
        => \E q \in Reqs \ {r} : req[q].token = req[r].token /\ Wrote(q, TTL)

OtherRecordsUntouched ==
    \A r \in Reqs :
        req'[r] # req[r]
        => \A t \in Tokens \ {req'[r].token} :
               store'[constructKey(t)] = store[constructKey(t)]

C18_TokensIsolated ==
    [](KeysDistinct /\ ShortCircuitedByOwnToken) /\ [][OtherRecordsUntouched]_vars

C18_Witness ==
    \E r \in Reqs : \E q \in Reqs \ {r} :
        /\ Protected(r) /\ Protected(q)
        /\ req[r].token # req[q].token
        /\ Healthy(r) /\ Healthy(q)
        /\ Forwarded(r) /\ Wrote(r, TTL)
        /\ req[q].fresh /\ CheckedAbsent(q) /\ Forwarded(q)
        /\ store[constructKey(req[r].token)] # NoRecord
        /\ store[constructKey(req[q].token)] # NoRecord

\* C17: the branch with a tracer and the branch without one take the same
\* way through the gate and leave the store in the same state, for every
\* header value and every answer of the store; tracing adds spans only: one
\* per gate run and one per store command with a tracer, none without.
SpansExpected(r) ==
    IF handler.Tracer = Nil THEN 0
    ELSE (IF IsMutating(req[r].method) THEN 1 ELSE 0) + Len(req[r].ops)

C17_TracingTransparent ==
    /\ \A tok \in Tokens : TracedBranch(tok) = UntracedBranch(tok)
    /\ \A tok \in Tokens : TracedBranch(tok) = ServiceBranch(tok)
    /\ \A tok \in Tokens : \A ok \in BOOLEAN : SaveTraced(tok, ok) = SaveUntraced(tok, ok)
    /\ \A r \in Reqs : Started(r) => Len(req[r].spans) = SpansExpected(r)

C17_Witness ==
    \E r \in Reqs :
        /\ Protected(r) /\ Healthy(r) /\ Forwarded(r)
        /\ handler.Tracer # Nil
        /\ Len(req[r].spans) = 3
        /\ store[constructKey(req[r].token)] = TTL

====
